---- MODULE Spec2Model ----
(***************************************************************************)
(* Model of the QUIC perf throughput server                                *)
(* (src/perf/lib/ThroughputServer.cpp): start-up, the blocking wait, and   *)
(* the listener, connection and stream callbacks, together with the        *)
(* completion tracker (CountHelper RefCount) they share.                   *)
(*                                                                         *)
(* Threads: the driver thread runs Start and Wait; the transport library   *)
(* runs the callbacks on its own worker threads, so a callback may run     *)
(* between any two statements of Start.  Events of one connection never    *)
(* overlap, and each callback touches shared state only through one atomic *)
(* tracker operation, so a callback is one step.                           *)
(***************************************************************************)
EXTENDS Integers, Sequences, FiniteSets

\* ---- bounds of the model ----
MaxConnections == 2     \* largest configured -connections value explored
MaxAccepted == 2        \* connections the transport library delivers
MaxStreams == 1         \* peer streams started in a run

Conns == 1..MaxAccepted
Streams == 1..MaxStreams

\* Timeout arguments the driver passes to Wait (milliseconds)
Timeouts == {-1, 0, 100}

\* Status codes
QUIC_STATUS_SUCCESS == "QUIC_STATUS_SUCCESS"
BindFailures == {"QUIC_STATUS_ADDRESS_IN_USE", "QUIC_STATUS_ACCESS_DENIED"}

VARIABLES
    NumberOfConnections,  \* configured connection count (0 = unbounded)
    pc,                   \* position of the driver thread inside Start
    i,                    \* loop counter of Start's registration loop
    startStatus,          \* value returned by Start ("none" until it returns)
    listenerCalls,        \* number of Listener.Start calls made
    listenerStatus,       \* status Listener.Start returned ("none" before)
    listening,            \* the listener is bound and delivers events
    RefCount,             \* the completion tracker
    fatal,                \* the tracker's fatal path was taken (process aborted)
    StopEvent,            \* the driver's external stop signal
    accepted,             \* connections delivered to the listener so far
    conn,                 \* per connection: lifecycle and bindings
    connCalls,            \* per connection: control calls made, in order
    stream,               \* per connection and stream: lifecycle and calls made
    earlyEvents,          \* shutdown-complete events handled before Start returned
    addCalls,             \* finished AddItem calls on the current tracker
    completeCalls,        \* finished (non-fatal) CompleteItem calls
    signalSets,           \* times the tracker set its completion signal
    pcWait,               \* position of the driver thread inside Wait
    waitTimeout,          \* Timeout argument of the running/last Wait
    waitOutcome,          \* what ended the tracker's wait
    waitStatus,           \* value returned by ThroughputServer::Wait
    waitBeganSet,         \* the running/last Wait began with the signal set
    lastStatus,           \* status returned by the last callback delivered
    failureLogged         \* WriteOutput reported a failed SetParam

vars == <<NumberOfConnections, pc, i, startStatus, listenerCalls,
          listenerStatus, listening,
          RefCount, fatal, StopEvent, accepted, conn, connCalls, stream,
          earlyEvents,
          addCalls, completeCalls, signalSets, pcWait, waitTimeout,
          waitOutcome, waitStatus, waitBeganSet, lastStatus,
          failureLogged>>

\* ---- the completion tracker (CountHelper) ----

\* A tracker that has not been bound to a stop signal: nothing registered.
DefaultCountHelper ==
    [configured |-> FALSE, registered |-> 0, remaining |-> 0, signal |-> FALSE]

\* configure(stopSignal): a fresh tracker bound to the stop signal.
CountHelper(stop) ==
    [configured |-> TRUE, registered |-> 0, remaining |-> 0, signal |-> FALSE]

\* addItem(): one atomic increment of registered and remaining.
AddItem(t) ==
    [t EXCEPT !.registered = @ + 1, !.remaining = @ + 1]

\* Variant: no underflow check.
CompleteItemFatal_Never(t) == FALSE

\* completeItem() called with nothing remaining takes the fatal path.
CompleteItemFatal(t) == t.remaining = 0

\* Variant: a decrement is applied twice.
CompleteItem_Double(t) ==
    [t EXCEPT !.remaining = @ - 2,
              !.signal = @ \/ (t.remaining - 2 <= 0)]

\* completeItem(): one atomic decrement; reaching 0 sets the signal.
CompleteItem(t) ==
    [t EXCEPT !.remaining = @ - 1,
              !.signal = @ \/ (t.remaining - 1 = 0)]

\* Variant: an edge-triggered wait, which misses a signal set before it began
\* looking and so can run into its timeout.
WaitResult_EdgeTriggered(t, stop, kind, elapsed) ==
    IF kind = "Wait" /\ elapsed THEN "timeout"
    ELSE IF t.signal THEN "completed"
    ELSE IF stop THEN "stopped"
    ELSE "blocked"

\* wait(timeout) / waitForever(): what ends a wait in the current state.
\* kind is "Wait" (bounded) or "WaitForever"; elapsed says whether the
\* timeout has run out; "blocked" means the wait has not ended.
WaitResult(t, stop, kind, elapsed) ==
    IF t.signal THEN "completed"
    ELSE IF stop THEN "stopped"
    ELSE IF kind = "Wait" /\ elapsed THEN "timeout"
    ELSE "blocked"

\* ---- initial state: after construction and Init(argc, argv) ----

NoStream == [state |-> "none", aborted |-> "none", calls |-> <<>>]

NoConn == [state |-> "none", secConfig |-> FALSE, handler |-> "none",
           streams |-> 0]

Init ==
    /\ NumberOfConnections \in 0..MaxConnections
    /\ pc = "init"
    /\ i = 0
    /\ startStatus = "none"
    /\ listenerCalls = 0
    /\ listenerStatus = "none"
    /\ listening = FALSE
    /\ RefCount = DefaultCountHelper
    /\ fatal = FALSE
    /\ StopEvent = FALSE
    /\ accepted = 0
    /\ conn = [c \in Conns |-> NoConn]
    /\ connCalls = [c \in Conns |-> <<>>]
    /\ stream = [c \in Conns |-> [k \in Streams |-> NoStream]]
    /\ earlyEvents = 0
    /\ addCalls = 0
    /\ completeCalls = 0
    /\ signalSets = 0
    /\ pcWait = "idle"
    /\ waitTimeout = 0
    /\ waitOutcome = "none"
    /\ waitStatus = "none"
    /\ waitBeganSet = FALSE
    /\ lastStatus = "none"
    /\ failureLogged = FALSE

trackerVars == <<RefCount, fatal, addCalls, completeCalls, signalSets>>
startVars == <<pc, i, startStatus, listenerCalls, listenerStatus, listening>>
connVars == <<accepted, conn, connCalls, stream, earlyEvents, failureLogged>>
waitVars == <<pcWait, waitTimeout, waitOutcome, waitStatus, waitBeganSet>>

\* ---- ThroughputServer::Start ----

\* Listener.Start succeeds: the listener is bound and may deliver events.
StartListenerOk ==
    /\ ~fatal
    /\ pc = "init"
    /\ listenerCalls' = listenerCalls + 1
    /\ listenerStatus' = QUIC_STATUS_SUCCESS
    /\ listening' = TRUE
    /\ pc' = "bound"
    /\ UNCHANGED <<NumberOfConnections, i, startStatus, StopEvent, lastStatus>>
    /\ UNCHANGED <<trackerVars, connVars, waitVars>>

\* Variant: the failure is not returned; Start carries on.
StartListenerFail_NoReturn ==
    /\ ~fatal
    /\ pc = "init"
    /\ \E s \in BindFailures :
        /\ listenerCalls' = listenerCalls + 1
        /\ listenerStatus' = s
        /\ pc' = "bound"
    /\ UNCHANGED <<NumberOfConnections, i, startStatus, listening, StopEvent,
                   lastStatus>>
    /\ UNCHANGED <<trackerVars, connVars, waitVars>>

\* Listener.Start fails: Start returns the status at once.
StartListenerFail ==
    /\ ~fatal
    /\ pc = "init"
    /\ \E s \in BindFailures :
        /\ listenerCalls' = listenerCalls + 1
        /\ listenerStatus' = s
        /\ startStatus' = s
        /\ pc' = "returned"
    /\ UNCHANGED <<NumberOfConnections, i, listening, StopEvent, lastStatus>>
    /\ UNCHANGED <<trackerVars, connVars, waitVars>>

\* RefCount = CountHelper{StopEvent};
StartConfigure ==
    /\ ~fatal
    /\ pc = "bound"
    /\ RefCount' = CountHelper(StopEvent)
    /\ addCalls' = 0
    /\ completeCalls' = 0
    /\ i' = 0
    /\ pc' = "register"
    /\ UNCHANGED <<NumberOfConnections, startStatus, listenerCalls,
                   listenerStatus, listening, fatal, signalSets, StopEvent,
                   lastStatus>>
    /\ UNCHANGED <<connVars, waitVars>>

\* Variant: the registration loop runs once too often (i <= N).
ItemsToRegister_OffByOne(n) == IF n > 0 THEN n + 1 ELSE 1

\* Number of items Start registers for a configured connection count.
ItemsToRegister(n) == IF n > 0 THEN n ELSE 1

\* One RefCount.AddItem() of the loop, or the single sentinel item.
StartAddItem ==
    /\ ~fatal
    /\ pc = "register"
    /\ i < ItemsToRegister(NumberOfConnections)
    /\ RefCount' = AddItem(RefCount)
    /\ addCalls' = addCalls + 1
    /\ i' = i + 1
    /\ UNCHANGED <<NumberOfConnections, pc, startStatus, listenerCalls,
                   listenerStatus, listening, fatal, completeCalls,
                   signalSets, StopEvent, lastStatus>>
    /\ UNCHANGED <<connVars, waitVars>>

\* return QUIC_STATUS_SUCCESS;
StartReturn ==
    /\ ~fatal
    /\ pc = "register"
    /\ i >= ItemsToRegister(NumberOfConnections)
    /\ startStatus' = QUIC_STATUS_SUCCESS
    /\ pc' = "returned"
    /\ UNCHANGED <<NumberOfConnections, i, listenerCalls, listenerStatus,
                   listening, StopEvent, lastStatus>>
    /\ UNCHANGED <<trackerVars, connVars, waitVars>>

\* ---- ThroughputServer::ListenerCallback ----

\* Variant: a connection whose SetParam failed is left without the handler.
NewConnectionHandler_DropOnFailure(enc) ==
    IF enc = "failed" THEN "none" ELSE "ConnectionCallback"

\* The handler the connection is bound to when the callback returns; enc is
\* the result of SetParam(QUIC_PARAM_CONN_DISABLE_1RTT_ENCRYPTION).
NewConnectionHandler(enc) == "ConnectionCallback"

\* What the NEW_CONNECTION case does to the connection, in order: the
\* security configuration, the handler, the encryption parameter.
NewConnectionCalls == <<"SetSecurityConfig", "SetCallbackHandler", "SetParam">>

\* Variant: the listener registers an item for every connection it accepts.
ListenerNewConnection_AddsItem ==
    /\ ~fatal
    /\ listening
    /\ accepted < MaxAccepted
    /\ \E enc \in {"disabled", "failed"} :
        conn' = [conn EXCEPT ![accepted + 1] =
                    [state |-> "active", secConfig |-> TRUE,
                     handler |-> NewConnectionHandler(enc),
                     streams |-> 0]]
        /\ failureLogged' = (failureLogged \/ enc = "failed")
    /\ connCalls' = [connCalls EXCEPT ![accepted + 1] = NewConnectionCalls]
    /\ accepted' = accepted + 1
    /\ RefCount' = AddItem(RefCount)
    /\ addCalls' = addCalls + 1
    /\ lastStatus' = QUIC_STATUS_SUCCESS
    /\ UNCHANGED <<NumberOfConnections, StopEvent, stream, earlyEvents, fatal,
                   completeCalls, signalSets>>
    /\ UNCHANGED <<startVars, waitVars>>

\* QUIC_LISTENER_EVENT_NEW_CONNECTION; SetParam may fail, which is written to
\* the output and changes nothing else.
ListenerNewConnection ==
    /\ ~fatal
    /\ listening
    /\ accepted < MaxAccepted
    /\ \E enc \in {"disabled", "failed"} :
        conn' = [conn EXCEPT ![accepted + 1] =
                    [state |-> "active", secConfig |-> TRUE,
                     handler |-> NewConnectionHandler(enc),
                     streams |-> 0]]
        /\ failureLogged' = (failureLogged \/ enc = "failed")
    /\ connCalls' = [connCalls EXCEPT ![accepted + 1] = NewConnectionCalls]
    /\ accepted' = accepted + 1
    /\ lastStatus' = QUIC_STATUS_SUCCESS
    /\ UNCHANGED <<NumberOfConnections, StopEvent, stream, earlyEvents>>
    /\ UNCHANGED <<trackerVars, startVars, waitVars>>

\* Any other listener event type: no case matches.
ListenerOtherEvent ==
    /\ ~fatal
    /\ listening
    /\ lastStatus' = QUIC_STATUS_SUCCESS
    /\ UNCHANGED <<NumberOfConnections, StopEvent>>
    /\ UNCHANGED <<trackerVars, startVars, connVars, waitVars>>

\* ---- ThroughputServer::ConnectionCallback ----

\* Variant: the bounded-mode test is missing.
ReportsCompletion_Always(n) == TRUE

\* if (NumberOfConnections > 0): bounded mode reports a completion.
ReportsCompletion(n) == n > 0

\* Variant: the handle is closed a second time.
ShutdownCompleteCalls_DoubleClose(n) ==
    IF n > 0 THEN <<"ConnectionClose", "CompleteItem", "ConnectionClose">>
    ELSE <<"ConnectionClose", "ConnectionClose">>

\* The control calls the SHUTDOWN_COMPLETE case makes, in order.
ShutdownCompleteCalls(n) ==
    IF ReportsCompletion(n) THEN <<"ConnectionClose", "CompleteItem">>
    ELSE <<"ConnectionClose">>

\* QUIC_CONNECTION_EVENT_SHUTDOWN_COMPLETE, delivered once per connection,
\* after the shutdown-complete of every stream the connection started.
ConnectionShutdownComplete(c) ==
    /\ ~fatal
    /\ conn[c].state = "active"
    /\ conn[c].handler = "ConnectionCallback"
    /\ \A k \in Streams : stream[c][k].state \in {"none", "closed"}
    /\ conn' = [conn EXCEPT ![c].state = "closed"]
    /\ connCalls' = [connCalls EXCEPT
                        ![c] = @ \o ShutdownCompleteCalls(NumberOfConnections)]
    /\ earlyEvents' = IF startStatus = "none" THEN earlyEvents + 1
                      ELSE earlyEvents
    /\ IF ReportsCompletion(NumberOfConnections)
       THEN IF CompleteItemFatal(RefCount)
            THEN /\ fatal' = TRUE
                 /\ UNCHANGED <<RefCount, completeCalls, signalSets>>
            ELSE /\ RefCount' = CompleteItem(RefCount)
                 /\ completeCalls' = completeCalls + 1
                 /\ signalSets' = IF RefCount'.remaining = 0
                                  THEN signalSets + 1 ELSE signalSets
                 /\ UNCHANGED fatal
       ELSE UNCHANGED <<RefCount, fatal, completeCalls, signalSets>>
    /\ lastStatus' = QUIC_STATUS_SUCCESS
    /\ UNCHANGED <<NumberOfConnections, StopEvent, accepted, addCalls, stream,
                   failureLogged>>
    /\ UNCHANGED <<startVars, waitVars>>

\* Streams started so far, over all connections.
StreamsStarted ==
    Cardinality({ck \in Conns \X Streams : stream[ck[1]][ck[2]].state # "none"})

\* QUIC_CONNECTION_EVENT_PEER_STREAM_STARTED: install the stream handler.
ConnectionPeerStreamStarted(c) ==
    /\ ~fatal
    /\ conn[c].state = "active"
    /\ conn[c].handler = "ConnectionCallback"
    /\ StreamsStarted < MaxStreams
    /\ conn' = [conn EXCEPT ![c].streams = @ + 1]
    /\ connCalls' = [connCalls EXCEPT ![c] = Append(@, "SetCallbackHandler")]
    /\ stream' = [stream EXCEPT ![c][conn[c].streams + 1].state = "open"]
    /\ lastStatus' = QUIC_STATUS_SUCCESS
    /\ UNCHANGED <<NumberOfConnections, StopEvent, accepted, earlyEvents,
                   failureLogged>>
    /\ UNCHANGED <<trackerVars, startVars, waitVars>>

\* Variant: an unrecognized event type is rejected.
ConnectionOtherEvent_Reject(c) ==
    /\ ~fatal
    /\ conn[c].state = "active"
    /\ conn[c].handler = "ConnectionCallback"
    /\ lastStatus' = "QUIC_STATUS_NOT_SUPPORTED"
    /\ UNCHANGED <<NumberOfConnections, StopEvent>>
    /\ UNCHANGED <<trackerVars, startVars, connVars, waitVars>>

\* default: any other connection event type.
ConnectionOtherEvent(c) ==
    /\ ~fatal
    /\ conn[c].state = "active"
    /\ conn[c].handler = "ConnectionCallback"
    /\ lastStatus' = QUIC_STATUS_SUCCESS
    /\ UNCHANGED <<NumberOfConnections, StopEvent>>
    /\ UNCHANGED <<trackerVars, startVars, connVars, waitVars>>

\* ---- ThroughputServer::StreamCallback ----

\* Variant: only the receive direction is aborted.
StreamAbortCalls_ReceiveOnly ==
    <<[call |-> "StreamShutdown", flags |-> {"ABORT_RECEIVE"}, code |-> 0]>>

\* The control call of the PEER_SEND_ABORTED / PEER_RECEIVE_ABORTED cases.
StreamAbortCalls ==
    <<[call |-> "StreamShutdown",
       flags |-> {"ABORT_SEND", "ABORT_RECEIVE"}, code |-> 0]>>

\* Variant: the abort cases fall through into the shutdown-complete case's
\* shutdown-free body, and the shutdown-complete case shuts down too.
StreamShutdownCompleteCalls_Fallthrough ==
    <<[call |-> "StreamShutdown",
       flags |-> {"ABORT_SEND", "ABORT_RECEIVE"}, code |-> 0],
      [call |-> "StreamClose"]>>

\* The control call of the SHUTDOWN_COMPLETE case.
StreamShutdownCompleteCalls == <<[call |-> "StreamClose"]>>

\* QUIC_STREAM_EVENT_PEER_SEND_ABORTED or QUIC_STREAM_EVENT_PEER_RECEIVE_ABORTED.
\* The peer's abort reaches a stream that is still open; once the handler has
\* aborted both directions the library has no further abort to report.
StreamPeerAborted(c, k) ==
    /\ ~fatal
    /\ conn[c].state = "active"
    /\ stream[c][k].state = "open"
    /\ \E ev \in {"PEER_SEND_ABORTED", "PEER_RECEIVE_ABORTED"} :
        /\ lastStatus' = QUIC_STATUS_SUCCESS
        /\ stream' = [stream EXCEPT ![c][k] =
                        [state |-> "shutdownPending", aborted |-> ev,
                         calls |-> @.calls \o StreamAbortCalls]]
    /\ UNCHANGED <<NumberOfConnections, StopEvent, accepted, conn, connCalls,
                   earlyEvents, failureLogged>>
    /\ UNCHANGED <<trackerVars, startVars, waitVars>>

\* QUIC_STREAM_EVENT_SHUTDOWN_COMPLETE, delivered once, as the last event.
StreamShutdownComplete(c, k) ==
    /\ ~fatal
    /\ conn[c].state = "active"
    /\ stream[c][k].state \in {"open", "shutdownPending"}
    /\ stream' = [stream EXCEPT ![c][k] =
                    [state |-> "closed", aborted |-> @.aborted,
                     calls |-> @.calls \o StreamShutdownCompleteCalls]]
    /\ lastStatus' = QUIC_STATUS_SUCCESS
    /\ UNCHANGED <<NumberOfConnections, StopEvent, accepted, conn, connCalls,
                   earlyEvents, failureLogged>>
    /\ UNCHANGED <<trackerVars, startVars, waitVars>>

\* default: any other stream event type.
StreamOtherEvent(c, k) ==
    /\ ~fatal
    /\ conn[c].state = "active"
    /\ stream[c][k].state \in {"open", "shutdownPending"}
    /\ lastStatus' = QUIC_STATUS_SUCCESS
    /\ UNCHANGED <<NumberOfConnections, StopEvent>>
    /\ UNCHANGED <<trackerVars, startVars, connVars, waitVars>>

\* ---- ThroughputServer::Wait ----

\* Variant: the test is Timeout >= 0.
WaitKind_NonNegative(Timeout) == IF Timeout >= 0 THEN "Wait" ELSE "WaitForever"

\* if (Timeout > 0) RefCount.Wait(Timeout) else RefCount.WaitForever()
WaitKind(Timeout) == IF Timeout > 0 THEN "Wait" ELSE "WaitForever"

\* The value ThroughputServer::Wait returns for an outcome of the tracker's wait.
WaitReturnValue(outcome) == QUIC_STATUS_SUCCESS

\* The driver calls Wait(Timeout) after a successful Start.
WaitCall ==
    /\ ~fatal
    /\ pc = "returned"
    /\ startStatus = QUIC_STATUS_SUCCESS
    /\ pcWait = "idle"
    /\ \E t \in Timeouts : waitTimeout' = t
    /\ pcWait' = "waiting"
    /\ waitBeganSet' = RefCount.signal
    /\ waitOutcome' = "none"
    /\ waitStatus' = "none"
    /\ UNCHANGED <<NumberOfConnections, StopEvent, lastStatus>>
    /\ UNCHANGED <<trackerVars, startVars, connVars>>

\* Variant: Wait tears down the connections still in flight when it returns.
WaitReturn_ForceClose ==
    /\ ~fatal
    /\ pcWait = "waiting"
    /\ \E elapsed \in BOOLEAN :
        LET r == WaitResult(RefCount, StopEvent, WaitKind(waitTimeout), elapsed)
        IN  /\ r # "blocked"
            /\ waitOutcome' = r
            /\ waitStatus' = WaitReturnValue(r)
    /\ pcWait' = "idle"
    /\ conn' = [c \in Conns |->
                IF conn[c].state = "active"
                THEN [conn[c] EXCEPT !.state = "closed"] ELSE conn[c]]
    /\ connCalls' = [c \in Conns |->
                IF conn[c].state = "active"
                THEN Append(connCalls[c], "ConnectionClose") ELSE connCalls[c]]
    /\ UNCHANGED <<NumberOfConnections, StopEvent, lastStatus, waitTimeout,
                   waitBeganSet, accepted, stream, earlyEvents,
                   failureLogged>>
    /\ UNCHANGED <<trackerVars, startVars>>

\* The tracker's wait ends and Wait returns.
WaitReturn ==
    /\ ~fatal
    /\ pcWait = "waiting"
    /\ \E elapsed \in BOOLEAN :
        LET r == WaitResult(RefCount, StopEvent, WaitKind(waitTimeout), elapsed)
        IN  /\ r # "blocked"
            /\ waitOutcome' = r
            /\ waitStatus' = WaitReturnValue(r)
    /\ pcWait' = "idle"
    /\ UNCHANGED <<NumberOfConnections, StopEvent, lastStatus, waitTimeout,
                   waitBeganSet>>
    /\ UNCHANGED <<trackerVars, startVars, connVars>>

\* ---- the driver's external stop signal ----

SetStopEvent ==
    /\ ~fatal
    /\ ~StopEvent
    /\ StopEvent' = TRUE
    /\ UNCHANGED <<NumberOfConnections, lastStatus>>
    /\ UNCHANGED <<trackerVars, startVars, connVars, waitVars>>

Next ==
    \/ StartListenerOk
    \/ StartListenerFail
    \/ StartConfigure
    \/ StartAddItem
    \/ StartReturn
    \/ ListenerNewConnection
    \/ ListenerOtherEvent
    \/ \E c \in Conns : ConnectionShutdownComplete(c)
    \/ \E c \in Conns : ConnectionPeerStreamStarted(c)
    \/ \E c \in Conns : ConnectionOtherEvent(c)
    \/ \E c \in Conns, k \in Streams : StreamPeerAborted(c, k)
    \/ \E c \in Conns, k \in Streams : StreamShutdownComplete(c, k)
    \/ \E c \in Conns, k \in Streams : StreamOtherEvent(c, k)
    \/ WaitCall
    \/ WaitReturn
    \/ SetStopEvent

Spec == Init /\ [][Next]_vars

\* The driver keeps waiting, and a wait that can end does end.
LiveSpec == Spec /\ WF_vars(WaitCall) /\ WF_vars(WaitReturn)

\* ---- properties ----

\* Connections whose shutdown-complete event has been handled.
Handled == Cardinality({c \in Conns : conn[c].state = "closed"})

\* Start has returned QUIC_STATUS_SUCCESS.
Started == pc = "returned" /\ startStatus = QUIC_STATUS_SUCCESS

\* Occurrences of a call in a call log.
Count(log, call) == Cardinality({k \in 1..Len(log) : log[k] = call})

\* In bounded mode Start has returned success, exactly N connections were
\* accepted and every one of them has delivered its shutdown-complete event.
C1_AllDelivered ==
    /\ NumberOfConnections > 0
    /\ Started
    /\ accepted = NumberOfConnections
    /\ Handled = NumberOfConnections

\* C1: bounded mode, after a successful Start: once exactly N connections have
\* each delivered one shutdown-complete event, remaining is 0, the completion
\* signal is set and the fatal path was not taken; and from then on a wait
\* returns "completed" (as long as no further connection is accepted).
C1_BoundedLiveness ==
    /\ [](C1_AllDelivered =>
            /\ RefCount.remaining = 0
            /\ RefCount.signal
            /\ ~fatal)
    /\ (C1_AllDelivered ~>
            ((pcWait = "idle" /\ waitOutcome = "completed") \/ ~C1_AllDelivered))

C1_Witness ==
    /\ C1_AllDelivered
    /\ NumberOfConnections >= 2
    /\ earlyEvents = 0
    /\ pcWait = "idle"
    /\ waitOutcome = "completed"

\* C2: bounded mode without a stop signal, after Start: while fewer than N
\* shutdown-complete events have been handled, remaining is N minus the
\* number handled, the completion signal is not set, and no wait has
\* reported "completed".
C2_BoundedSafety ==
    (/\ NumberOfConnections > 0
     /\ Started
     /\ ~StopEvent
     /\ Handled < NumberOfConnections)
    => /\ RefCount.remaining = NumberOfConnections - Handled
       /\ ~RefCount.signal
       /\ waitOutcome # "completed"

\* C3: unbounded mode: the completion signal is never set and no wait ends as
\* "completed"; after Start exactly one item is registered and it remains,
\* whatever connections were accepted and shut down.
C3_UnboundedSentinel ==
    NumberOfConnections = 0 =>
        /\ ~RefCount.signal
        /\ signalSets = 0
        /\ waitOutcome \in {"none", "stopped", "timeout"}
        /\ Started => /\ RefCount.registered = 1
                      /\ RefCount.remaining = 1
                      /\ addCalls = 1

C3_Witness ==
    /\ NumberOfConnections = 0
    /\ Started
    /\ Handled >= 2
    /\ pcWait = "idle"
    /\ waitOutcome = "timeout"

\* A step in which a connection callback calls completeItem().
CompleteItemStep ==
    /\ ReportsCompletion(NumberOfConnections)
    /\ \E c \in Conns : conn[c].state = "active" /\ conn'[c].state = "closed"

\* C4: remaining is never negative; completeItem() with remaining = 0 takes
\* the fatal path and leaves the count alone; every other completeItem()
\* lowers remaining by exactly 1.
C4_CompleteItemUnderflow ==
    /\ [](RefCount.remaining >= 0)
    /\ [][CompleteItemStep =>
            IF RefCount.remaining = 0
            THEN fatal' /\ RefCount'.remaining = 0
            ELSE ~fatal' /\ RefCount'.remaining = RefCount.remaining - 1]_vars

C4_Witness ==
    /\ fatal
    /\ RefCount.registered > 0
    /\ completeCalls = RefCount.registered
    /\ RefCount.remaining = 0

\* C5: unbounded mode, no connection, no stop signal, positive timeout: the
\* wait ends by timeout, and the value Wait returns then differs from the
\* value it returns when the tracker completes.
C5_WaitIndicatesOutcome ==
    (/\ NumberOfConnections = 0
     /\ accepted = 0
     /\ ~StopEvent
     /\ pcWait = "idle"
     /\ waitTimeout > 0
     /\ waitStatus # "none")
    => /\ waitOutcome = "timeout"
       /\ waitStatus # WaitReturnValue("completed")

C7_NoLostUpdate ==
    /\ RefCount.registered = addCalls
    /\ RefCount.remaining = addCalls - completeCalls
    /\ (addCalls > 0 /\ completeCalls = addCalls) =>
            (RefCount.remaining = 0 /\ RefCount.signal)

C7_Witness ==
    /\ earlyEvents > 0
    /\ addCalls >= 2
    /\ completeCalls = addCalls
    /\ ~fatal

\* C8: at the moment Start returns success the tracker holds N registered and
\* N remaining items when N > 0, and 1 registered item when N = 0.
C8_StartRegisters ==
    [][(startStatus = "none" /\ startStatus' = QUIC_STATUS_SUCCESS) =>
        IF NumberOfConnections > 0
        THEN /\ RefCount'.registered = NumberOfConnections
             /\ RefCount'.remaining = NumberOfConnections
        ELSE RefCount'.registered = 1]_vars

\* C9: when the listener bind fails, Start has returned that status after a
\* single Listener.Start call, and the tracker is untouched: not bound to the
\* stop signal, nothing registered.
C9_BindFailure ==
    listenerStatus \in BindFailures =>
        /\ pc = "returned"
        /\ startStatus = listenerStatus
        /\ listenerCalls = 1
        /\ ~listening
        /\ RefCount = DefaultCountHelper
        /\ ~RefCount.configured
        /\ addCalls = 0

C9_Witness ==
    /\ listenerStatus \in BindFailures
    /\ pc = "returned"
    /\ NumberOfConnections > 0

\* C10: a connection's handle is closed exactly once, by its shutdown-complete
\* event and by no other event, and a connection reports at most one
\* completion (none in unbounded mode).
C10_CloseOnce ==
    /\ [](\A c \in Conns :
            /\ Count(connCalls[c], "ConnectionClose")
                 = (IF conn[c].state = "closed" THEN 1 ELSE 0)
            /\ Count(connCalls[c], "CompleteItem")
                 = (IF conn[c].state = "closed" /\ NumberOfConnections > 0
                    THEN 1 ELSE 0))
    /\ [][\A c \in Conns :
            Count(connCalls'[c], "ConnectionClose")
                # Count(connCalls[c], "ConnectionClose")
            => /\ conn[c].state = "active"
               /\ conn'[c].state = "closed"]_vars

C10_Witness ==
    /\ NumberOfConnections > 0
    /\ \A c \in Conns : conn[c].state = "closed"
    /\ \E c \in Conns : conn[c].streams > 0

\* The calls the claims expect on a stream handle.
AbortBothCall ==
    [call |-> "StreamShutdown",
     flags |-> {"ABORT_SEND", "ABORT_RECEIVE"}, code |-> 0]

CloseCall == [call |-> "StreamClose"]

\* Calls of one kind in a stream's call log.
CountCalls(log, name) ==
    Cardinality({n \in 1..Len(log) : log[n].call = name})

\* C11: a stream that received peer-send-aborted or peer-receive-aborted has
\* had exactly one shutdown call, aborting both directions with error code 0;
\* once its shutdown-complete has arrived that call is followed by exactly
\* one close call, and no stream ever has two shutdown or two close calls.
C11_AbortThenClose ==
    \A c \in Conns, k \in Streams :
        /\ CountCalls(stream[c][k].calls, "StreamShutdown") <= 1
        /\ CountCalls(stream[c][k].calls, "StreamClose") <= 1
        /\ stream[c][k].aborted # "none" =>
            /\ stream[c][k].state \in {"shutdownPending", "closed"}
            /\ stream[c][k].state = "shutdownPending" =>
                    stream[c][k].calls = <<AbortBothCall>>
            /\ stream[c][k].state = "closed" =>
                    stream[c][k].calls = <<AbortBothCall, CloseCall>>

C11_Witness ==
    \E c \in Conns, k \in Streams :
        /\ stream[c][k].aborted = "PEER_RECEIVE_ABORTED"
        /\ stream[c][k].state = "closed"
        /\ stream[c][k].calls = <<AbortBothCall, CloseCall>>

\* C12: a stream whose shutdown-complete has been delivered has been closed
\* exactly once, by the last call made on it, and no call is made on it
\* afterwards; a stream still open has not been closed; and the
\* shutdown-complete event adds the close call and nothing else.
C12_StreamReleasedOnce ==
    /\ [](\A c \in Conns, k \in Streams :
            LET log == stream[c][k].calls
            IN  IF stream[c][k].state = "closed"
                THEN /\ CountCalls(log, "StreamClose") = 1
                     /\ log[Len(log)] = CloseCall
                ELSE CountCalls(log, "StreamClose") = 0)
    /\ [][\A c \in Conns, k \in Streams :
            /\ stream[c][k].state = "closed" => stream'[c][k] = stream[c][k]
            /\ (stream[c][k].state # "closed" /\ stream'[c][k].state = "closed")
                    => stream'[c][k].calls = Append(stream[c][k].calls, CloseCall)
         ]_vars

C12_Witness ==
    \E c \in Conns, k \in Streams :
        /\ stream[c][k].state = "closed"
        /\ stream[c][k].aborted = "none"
        /\ stream[c][k].calls = <<CloseCall>>
        /\ conn[c].state = "closed"

\* n copies of a call, as a log.
Repeat(call, n) == [m \in 1..n |-> call]

\* C13: every accepted connection has the security configuration attached
\* and the ConnectionCallback handler installed, in that order and before the
\* SetParam attempt; the NEW_CONNECTION callback returns success whether
\* SetParam failed or not; and whatever the result of SetParam, a connection
\* whose shutdown-complete was handled has had its handle closed once and, in
\* bounded mode, one completion reported.
C13_EncryptionFailureNonFatal ==
    /\ [](\A c \in Conns : conn[c].state # "none" =>
            /\ conn[c].secConfig
            /\ conn[c].handler = "ConnectionCallback"
            /\ SubSeq(connCalls[c], 1, 3)
                 = <<"SetSecurityConfig", "SetCallbackHandler", "SetParam">>
            /\ conn[c].state = "closed" =>
                 connCalls[c] =
                    <<"SetSecurityConfig", "SetCallbackHandler", "SetParam">>
                    \o Repeat("SetCallbackHandler", conn[c].streams)
                    \o <<"ConnectionClose">>
                    \o (IF NumberOfConnections > 0
                        THEN <<"CompleteItem">> ELSE <<>>))
    /\ [][accepted' # accepted => lastStatus' = QUIC_STATUS_SUCCESS]_vars

\* A SetParam failed, and every accepted connection, the one it failed on
\* included, has had its shutdown-complete handled.
C13_Witness ==
    /\ failureLogged
    /\ accepted = 1
    /\ conn[1].state = "closed"
    /\ NumberOfConnections > 0
    /\ completeCalls > 0
    /\ ~fatal

\* C14: a wait can be ended by the stop signal while items remain; the step
\* in which Wait returns, for whatever reason, changes no connection and no
\* stream and makes no call on any of them; and a connection is closed only
\* in the step that handles its own shutdown-complete event.
C14_CooperativeCancellation ==
    /\ [][(pcWait = "waiting" /\ pcWait' = "idle") =>
            /\ conn' = conn
            /\ connCalls' = connCalls
            /\ stream' = stream]_vars
    /\ [][\A c \in Conns :
            (conn[c].state = "active" /\ conn'[c].state = "closed") =>
                /\ Count(connCalls'[c], "ConnectionClose")
                     = Count(connCalls[c], "ConnectionClose") + 1
                /\ lastStatus' = QUIC_STATUS_SUCCESS
                /\ pcWait' = pcWait
                /\ \A d \in Conns \ {c} : conn'[d] = conn[d]]_vars
    /\ [](waitOutcome = "stopped" => StopEvent)

\* The wait was ended by the stop signal with the signal unset (items
\* remained), and the connections were handled and completed afterwards.
C14_Witness ==
    /\ NumberOfConnections > 0
    /\ pcWait = "idle"
    /\ waitOutcome = "stopped"
    /\ RefCount.signal
    /\ Handled = NumberOfConnections
    /\ ~fatal

\* C15: every callback delivered so far, of the listener, a connection or a
\* stream, for a recognized event type or not, returned the success status.
C15_CallbacksReturnSuccess ==
    lastStatus # "none" => lastStatus = QUIC_STATUS_SUCCESS

\* Callbacks of the listener, a connection and a stream have returned, one
\* of them after a failed SetParam.
C15_Witness ==
    /\ lastStatus = QUIC_STATUS_SUCCESS
    /\ failureLogged
    /\ \E c \in Conns : conn[c].state = "closed" /\ conn[c].streams > 0

\* A step of Start that configures the tracker or registers an item.
StartTrackerStep ==
    /\ pc \in {"bound", "register"}
    /\ (pc' # pc \/ i' # i)

\* C16: the tracker changes only in a step of Start or in the handling of a
\* connection's shutdown-complete in bounded mode; and a control call on a
\* connection or a stream is made only in the handling of a recognized event
\* (new connection, peer stream started, a stream's peer abort or
\* shutdown-complete, a connection's shutdown-complete), never for an
\* unrecognized event type.
C16_TrackerFrame ==
    /\ [][RefCount' # RefCount => (StartTrackerStep \/ CompleteItemStep)]_vars
    /\ [][(connCalls' # connCalls \/ stream' # stream) =>
            \/ accepted' # accepted
            \/ \E c \in Conns :
                \/ conn'[c].state # conn[c].state
                \/ conn'[c].streams # conn[c].streams
                \/ \E k \in Streams : stream'[c][k].state # stream[c][k].state
         ]_vars

C16_Witness ==
    /\ NumberOfConnections = 0
    /\ Started
    /\ Handled >= 1
    /\ StreamsStarted >= 1
    /\ RefCount.remaining = 1

\* C17: a wait ends by timeout only if Timeout > 0; a wait with Timeout <= 0
\* returns only when the completion signal or the stop signal is set.
C17_WaitKind ==
    /\ [](waitOutcome = "timeout" => waitTimeout > 0)
    /\ [][(pcWait = "waiting" /\ pcWait' = "idle" /\ waitTimeout <= 0) =>
            (RefCount.signal \/ StopEvent)]_vars

C17_Witness ==
    /\ pcWait = "idle"
    /\ waitTimeout = 0
    /\ waitOutcome = "stopped"
    /\ ~RefCount.signal

\* C18: every CompleteItem call of a connection callback is made after Start
\* has configured the tracker, registered all its items and returned.
C18_CompleteAfterStart ==
    [][CompleteItemStep => Started]_vars

\* C19: in bounded mode, with every shutdown-complete delivered after Start
\* returned and however many connections are accepted, no more than N
\* completions are made and the fatal path is not taken.
C19_NoExcessCompletion ==
    (NumberOfConnections > 0 /\ Started /\ earlyEvents = 0) =>
        /\ Handled <= NumberOfConnections
        /\ ~fatal

\* C20: a connection closes its handle before it reports its completion, and
\* in bounded mode whenever the completion signal is set at least N
\* connection handles have been closed.
C20_CloseBeforeReport ==
    /\ \A c \in Conns : \A m, n \in 1..Len(connCalls[c]) :
            (connCalls[c][m] = "ConnectionClose" /\ connCalls[c][n] = "CompleteItem")
                => m < n
    /\ (NumberOfConnections > 0 /\ RefCount.signal) =>
            Handled >= NumberOfConnections

====
